---- MODULE Spec2Model ----
(***************************************************************************)
(* Model of the worker-based embedding pipeline of ai-blog:                *)
(*   - the worker RPC client  (createWorkerRpcClient: call, onMessage,     *)
(*     timeout timers, dispose),                                           *)
(*   - the embedding worker   (message handler, ensurePipeline).           *)
(***************************************************************************)
EXTENDS Integers, Sequences, FiniteSets, TLC

(***************************************************************************)
(* Bounds of the model.                                                    *)
(***************************************************************************)
\* number of client calls made in one behaviour
MaxCalls == 2
\* number of requests the worker receives in one behaviour
MaxRequests == 2
\* length of the longest texts array of an embed request
MaxTexts == 2
\* content-length of an asset file
FileBytes == 1

(***************************************************************************)
(* Program constants.                                                      *)
(***************************************************************************)
\* call: opts?.timeoutMs ?? 60_000
DefaultTimeoutMs == 60000

(***************************************************************************)
(* JavaScript values that travel in messages.                              *)
(***************************************************************************)
Undefined == "undefined"

\* request identifiers are strings; the model names them 1, 2, ...: the
\* n-th call gets the identifier n
RequestIds == 1..MaxCalls

WorkerRequestType == {"init", "embed", "status", "clearCache"}

\* the request types the modelled callers use
CallTypes == {"embed"}

\* opts.timeoutMs: absent (undefined), or an explicit number of milliseconds
NoTimeoutMs == 0 - 1
CallerTimeouts == {NoTimeoutMs, 5000}

Results == {"resultA"}
Errors == {Undefined, "errorA"}
Payloads == {"p1", "p2"}

\* the Error values the client itself creates
UnknownWorkerError == "Error: Error desconocido del Worker de embeddings."
TimeoutError == "Error: Timeout llamando al Worker"
DisposedError == "Error: RPC client disposed"

\* event.data of a message event.  tag is the JavaScript kind of the value:
\* null and undefined are falsy, "string" stands for a truthy primitive,
\* "object" carries the fields.  ridType is typeof data.requestId.
MkData(tag, type, ridType, rid, ok, result, error, payload) ==
  [tag |-> tag, type |-> type, ridType |-> ridType, requestId |-> rid,
   ok |-> ok, result |-> result, error |-> error, payload |-> payload]

NonObjectData ==
  { MkData(t, Undefined, Undefined, 0, FALSE, Undefined, Undefined, Undefined) :
      t \in {"null", "string"} }

ResponseData ==
  { MkData("object", "response", "string", r, TRUE, "resultA", Undefined, Undefined) :
      r \in RequestIds }
  \cup
  { MkData("object", "response", "string", r, FALSE, Undefined, e, Undefined) :
      r \in RequestIds, e \in Errors }

ProgressData ==
  { MkData("object", "progress", "string", r, FALSE, Undefined, Undefined, p) :
      r \in RequestIds, p \in Payloads }

\* objects of another shape: a foreign type, a requestId that is a number,
\* a requestId that is missing
MalformedData ==
  { MkData("object", "other", "string", 1, TRUE, "resultA", Undefined, "p1"),
    MkData("object", "response", "number", 1, TRUE, "resultA", Undefined, Undefined),
    MkData("object", "progress", Undefined, 0, FALSE, Undefined, Undefined, "p1") }

MessageData == NonObjectData \cup ResponseData \cup ProgressData \cup MalformedData

\* the data of a step that handles no message event
NoData == MkData("none", Undefined, Undefined, 0, FALSE, Undefined, Undefined, Undefined)

(***************************************************************************)
(* State of the RPC client and of its environment.                         *)
(***************************************************************************)
VARIABLES
  calls,        \* the promises returned by call(), in order of creation
  pending,      \* the Map requestId -> entry of createWorkerRpcClient
  timers,       \* the window timers that are set: timeoutId -> callback closure
  nextTimerId,  \* the next value window.setTimeout returns
  listening,    \* onMessage is registered on the worker
  terminated,   \* worker.terminate() has been called
  posted,       \* the requests handed to worker.postMessage, in order
  invoked,      \* the onProgress invocations made by the last step, in order
  threw,        \* the last step raised an exception
  lastEvent     \* the event handled by the last step

rpcVars == <<calls, pending, timers, nextTimerId, listening, terminated,
             posted, invoked, threw, lastEvent>>

(***************************************************************************)
(* State of the embedding worker.                                          *)
(***************************************************************************)
VARIABLES
  build,                      \* which of the two worker scripts runs
  featureExtractionPipeline,  \* the loaded pipeline, or NoPipeline
  currentConfig,              \* {modelId, device}
  downloadTracker,            \* Map fileKey -> {loaded, total}
  fetchChain,                 \* the wrappers installed around the native fetch
  handlers,                   \* the message handler invocations, in order of arrival
  downloads,                  \* the asset download in flight, per handler
  outbox                      \* the messages handed to self.postMessage by the last step, in order

wVars == <<build, featureExtractionPipeline, currentConfig, downloadTracker,
           fetchChain, handlers, downloads, outbox>>

(***************************************************************************)
(* State of the database functions: one invocation of semanticSearch and   *)
(* the document_embeddings table written by upsertEmbeddings.              *)
(***************************************************************************)
VARIABLES
  searchPc,        \* where the invocation of semanticSearch stands
  searchQuery,     \* its arguments: the length of queryEmbedding, and limit
  storeCalls,      \* the number of queries the invocation has sent to the store
  searchRows,      \* the rows the store returned to the invocation
  searchResult,    \* how the promise of the invocation was settled
  embeddingsTable, \* the rows of the table document_embeddings
  lastUpsert       \* the outcome of the last call of upsertEmbeddings

searchVars == <<searchPc, searchQuery, storeCalls, searchRows, searchResult>>

upsertVars == <<embeddingsTable, lastUpsert>>

dbVars == <<searchVars, upsertVars>>

(***************************************************************************)
(* The page: the module-level worker singleton of the RPC module, and the  *)
(* state of the SearchResults component.                                   *)
(***************************************************************************)
VARIABLES
  workerInstance,     \* let workerInstance: the Worker kept by the module, or NoWorker
  workerCount,        \* the number of Workers constructed so far
  terminatedWorkers,  \* the Workers on which terminate() has been called
  clientWorkers,      \* the Workers an RPC client has been created on
  returned,           \* what getEmbeddingsWorker returned in this step, or NoWorker
  query,              \* the query prop of SearchResults
  searches,           \* the invocations of performSearch, in order of start
  results,            \* useState results: the query whose hits are shown, or NoHits
  searchPhase,        \* useState phase
  searchError,        \* useState error
  searching           \* the last value given to onSearchStateChange / search:state

instanceVars == <<workerInstance, workerCount, terminatedWorkers, clientWorkers, returned>>

uiVars == <<query, searches, results, searchPhase, searchError, searching>>

pageVars == <<instanceVars, uiVars>>

vars == <<calls, pending, timers, nextTimerId, listening, terminated,
          posted, invoked, threw, lastEvent,
          build, featureExtractionPipeline, currentConfig, downloadTracker,
          fetchChain, handlers, downloads, outbox,
          searchPc, searchQuery, storeCalls, searchRows, searchResult,
          embeddingsTable, lastUpsert,
          workerInstance, workerCount, terminatedWorkers, clientWorkers, returned,
          query, searches, results, searchPhase, searchError, searching>>

CallIds == 1..Len(calls)

IssuedIds == { calls[c].requestId : c \in CallIds }

\* the event of a step: its kind, the call it belongs to (0 if none), the
\* event.data of a message event, and the delay handed to window.setTimeout
\* by call() (0 if the step sets no timer)
Event(ev, c, data, timeoutMs) ==
  [ev |-> ev, call |-> c, data |-> data, timeoutMs |-> timeoutMs]

(***************************************************************************)
(* Helpers.                                                                *)
(***************************************************************************)
\* Map.prototype.set / delete on a function with a finite domain
MapSet(m, k, v) == [x \in (DOMAIN m) \cup {k} |-> IF x = k THEN v ELSE m[x]]

MapDelete(m, k) == [x \in (DOMAIN m) \ {k} |-> m[x]]

MapDeleteAll(m, ks) == [x \in (DOMAIN m) \ ks |-> m[x]]

\* resolve / reject of the promise of call c: the first invocation settles
\* the promise, later ones are counted but have no effect
Settle(cs, c, state, value) ==
  [cs EXCEPT ![c] = [@ EXCEPT
     !.settleCount = @ + 1,
     !.state = IF cs[c].state = "pending" THEN state ELSE @,
     !.value = IF cs[c].state = "pending" THEN value ELSE @]]

\* mutant: an identifier generator that returns the previous value again
randomId_Repeats == IF Len(calls) = 0 THEN 1 ELSE Len(calls)

\* a fresh requestId: crypto.randomUUID() never repeats a value; the n-th
\* value it returns is named n
randomId == Len(calls) + 1

\* !value
Falsy(value) == value.tag \in {"null", "undefined"}

\* typeof value
TypeOf(value) == IF value.tag = "null" THEN "object" ELSE value.tag

\* reading a property of null or undefined throws a TypeError
ReadThrows(value) == value.tag \in {"null", "undefined"}

\* mutant: the check !value is left out, so that null (typeof 'object') passes
isWorkerMessage_NoFalsyCheck(value) ==
  IF TypeOf(value) # "object" THEN "false"
  ELSE IF ReadThrows(value) THEN "throws"
  ELSE IF /\ value.type \in {"response", "progress"}
          /\ value.ridType = "string"
       THEN "true"
       ELSE "false"

\* "true", "false", or "throws" when evaluating it raises an exception
isWorkerMessage(value) ==
  IF Falsy(value) \/ TypeOf(value) # "object" THEN "false"
  ELSE IF ReadThrows(value) THEN "throws"
  ELSE IF /\ value.type \in {"response", "progress"}
          /\ value.ridType = "string"
       THEN "true"
       ELSE "false"

(***************************************************************************)
(* Initial state: createWorkerRpcClient(worker) has returned.              *)
(***************************************************************************)
InitRpc ==
  /\ calls = <<>>
  /\ pending = << >>
  /\ timers = << >>
  /\ nextTimerId = 1
  /\ listening = TRUE
  /\ terminated = FALSE
  /\ posted = <<>>
  /\ invoked = <<>>
  /\ threw = FALSE
  /\ lastEvent = Event("create", 0, NoData, 0)

(***************************************************************************)
(* call(type, payload, opts)                                               *)
(***************************************************************************)
Call(type, optTimeoutMs, hasOnProgress) ==
  LET c == Len(calls) + 1
      requestId == randomId
      timeoutMs == IF optTimeoutMs = NoTimeoutMs THEN DefaultTimeoutMs ELSE optTimeoutMs
      timeoutId == nextTimerId
  IN /\ Len(calls) < MaxCalls
     /\ calls' = Append(calls, [requestId |-> requestId, onProgress |-> hasOnProgress,
                                state |-> "pending", value |-> Undefined,
                                settleCount |-> 0, settledBy |-> "none"])
     /\ timers' = MapSet(timers, timeoutId, [call |-> c, requestId |-> requestId])
     /\ nextTimerId' = nextTimerId + 1
     /\ pending' = MapSet(pending, requestId,
                          [call |-> c, onProgress |-> hasOnProgress, timeoutId |-> timeoutId])
     /\ posted' = IF terminated THEN posted
                  ELSE Append(posted, [type |-> type, requestId |-> requestId])
     /\ invoked' = <<>>
     /\ lastEvent' = Event("call", c, NoData, timeoutMs)
     /\ threw' = FALSE
     /\ UNCHANGED <<listening, terminated>>
     /\ UNCHANGED <<wVars, dbVars, pageVars>>

(***************************************************************************)
(* onMessage(event)                                                        *)
(***************************************************************************)
\* mutant: the callback is invoked twice for one message
InvokeOnProgress_Twice(entry, payload) ==
  IF entry.onProgress
  THEN <<[call |-> entry.call, payload |-> payload],
         [call |-> entry.call, payload |-> payload]>>
  ELSE <<>>

\* entry.onProgress?.(data.payload)
InvokeOnProgress(entry, payload) ==
  IF entry.onProgress
  THEN <<[call |-> entry.call, payload |-> payload]>>
  ELSE <<>>

\* mutant: the response leaves the timer of the call set
ResponseClearsTimeout_Keeps(entry) == timers

\* if (entry.timeoutId) window.clearTimeout(entry.timeoutId)
ResponseClearsTimeout(entry) ==
  IF entry.timeoutId # 0 THEN MapDelete(timers, entry.timeoutId) ELSE timers

\* mutant: the test of data.ok is inverted
ResponseSettles_Inverted(entry, data) ==
  IF ~data.ok
  THEN [Settle(calls, entry.call, "resolved", data.result)
          EXCEPT ![entry.call].settledBy = "response"]
  ELSE [Settle(calls, entry.call, "rejected",
               IF data.error # Undefined THEN data.error ELSE UnknownWorkerError)
          EXCEPT ![entry.call].settledBy = "response"]

\* if (data.ok) entry.resolve(data.result) else entry.reject(data.error ?? new Error(..))
ResponseSettles(entry, data) ==
  IF data.ok
  THEN [Settle(calls, entry.call, "resolved", data.result)
          EXCEPT ![entry.call].settledBy = "response"]
  ELSE [Settle(calls, entry.call, "rejected",
               IF data.error # Undefined THEN data.error ELSE UnknownWorkerError)
          EXCEPT ![entry.call].settledBy = "response"]

\* the body of onMessage, for event.data = data
onMessage(data) ==
  LET shape == isWorkerMessage(data)
  IN IF shape = "throws"
     THEN /\ threw' = TRUE
          /\ invoked' = <<>>
          /\ UNCHANGED <<calls, pending, timers>>
     ELSE IF shape = "false" \/ data.requestId \notin DOMAIN pending
     THEN /\ threw' = FALSE
          /\ invoked' = <<>>
          /\ UNCHANGED <<calls, pending, timers>>
     ELSE LET entry == pending[data.requestId]
          IN IF data.type = "progress"
             THEN /\ invoked' = InvokeOnProgress(entry, data.payload)
                  /\ threw' = FALSE
                  /\ UNCHANGED <<calls, pending, timers>>
             ELSE /\ timers' = ResponseClearsTimeout(entry)
                  /\ pending' = MapDelete(pending, data.requestId)
                  /\ calls' = ResponseSettles(entry, data)
                  /\ threw' = FALSE
                  /\ invoked' = <<>>

\* a message event of the worker is dispatched: a terminated worker
\* delivers none, and the listener runs only while it is registered
MessageEvent(data) ==
  /\ ~terminated
  /\ lastEvent' = Event("message", 0, data, 0)
  /\ IF listening
     THEN onMessage(data)
     ELSE /\ invoked' = <<>>
          /\ threw' = FALSE
          /\ UNCHANGED <<calls, pending, timers>>
  /\ UNCHANGED <<nextTimerId, listening, terminated, posted>>
  /\ UNCHANGED <<wVars, dbVars, pageVars>>

(***************************************************************************)
(* the timeout callback of call(), run by the timer timeoutId              *)
(***************************************************************************)
\* mutant: the timeout callback leaves the entry in the Map
TimeoutDeletes_Keeps(t) == pending

\* pending.delete(requestId)
TimeoutDeletes(t) == MapDelete(pending, t.requestId)

\* mutant: the timeout callback does not reject
TimeoutRejects_Forgets(t) == calls

\* reject(new Error(`Timeout llamando al Worker (${type}).`))
TimeoutRejects(t) ==
  [Settle(calls, t.call, "rejected", TimeoutError)
     EXCEPT ![t.call].settledBy = IF calls[t.call].state = "pending" THEN "timeout" ELSE @]

TimerFire(timeoutId) ==
  /\ timeoutId \in DOMAIN timers
  /\ LET t == timers[timeoutId]
     IN /\ pending' = TimeoutDeletes(t)
        /\ calls' = TimeoutRejects(t)
        /\ lastEvent' = Event("timer", t.call, NoData, 0)
  /\ timers' = MapDelete(timers, timeoutId)
  /\ invoked' = <<>>
  /\ threw' = FALSE
  /\ UNCHANGED <<nextTimerId, listening, terminated, posted>>
  /\ UNCHANGED <<wVars, dbVars, pageVars>>

(***************************************************************************)
(* dispose()                                                               *)
(***************************************************************************)
\* entry.reject(new Error('RPC client disposed')), for every entry
DisposeRejects(cs, entries) ==
  [c \in DOMAIN cs |->
     IF \E id \in DOMAIN entries : entries[id].call = c
     THEN [Settle(cs, c, "rejected", DisposedError)[c]
             EXCEPT !.settledBy = IF cs[c].state = "pending" THEN "dispose" ELSE @]
     ELSE cs[c]]

\* mutant: dispose() clears no timer
DisposeClears_None(entries) == {}

\* if (entry.timeoutId) window.clearTimeout(entry.timeoutId), for every entry
DisposeClears(entries) ==
  { entries[id].timeoutId : id \in { x \in DOMAIN entries : entries[x].timeoutId # 0 } }

Dispose ==
  /\ listening' = FALSE
  /\ timers' = MapDeleteAll(timers, DisposeClears(pending))
  /\ calls' = DisposeRejects(calls, pending)
  /\ pending' = << >>
  /\ terminated' = TRUE
  /\ lastEvent' = Event("dispose", 0, NoData, 0)
  /\ invoked' = <<>>
  /\ threw' = FALSE
  /\ UNCHANGED <<nextTimerId, posted>>
  /\ UNCHANGED <<wVars, dbVars, pageVars>>

(***************************************************************************)
(* The embedding worker.  Two scripts of the repository implement it:      *)
(* "xenova" (Transformers.js 2.17.2, wraps globalThis.fetch) and           *)
(* "huggingface" (public/embeddings-worker.js, Transformers.js 3.8.1,      *)
(* wraps env.fetch).                                                       *)
(***************************************************************************)
Builds == {"xenova", "huggingface"}

Null == "null"

\* payload?.modelId || '...'
DefaultModelId(b) ==
  IF b = "xenova" THEN "Xenova/paraphrase-multilingual-MiniLM-L12-v2"
  ELSE "Xenova/multilingual-e5-large"

\* payload?.device || 'wasm'
DefaultDevice == "wasm"

\* let featureExtractionPipeline = null.  A loaded pipeline is named by the
\* model and device it was created for.
NoPipeline == [modelId |-> Null, device |-> Null]

\* let currentConfig = { modelId: null, device: null }
EmptyConfig == [modelId |-> Null, device |-> Null]

\* a || b on strings: null, undefined and '' are falsy
Or(a, b) == IF a \in {Null, Undefined, ""} THEN b ELSE a

\* the (modelId, device) a request payload may carry
PayloadConfigs ==
  { [modelId |-> Undefined, device |-> Undefined],
    [modelId |-> "modelB", device |-> "webgpu"] }

\* payload.texts: not an array, an empty array, or an array of MaxTexts
\* strings; the strings are named by positive numbers, in descending order
TextsOf(n) == [i \in 1..n |-> n + 1 - i]

\* an element of texts that is not a string, such as the number 42
NonString == 0

PayloadTexts ==
  { [isArray |-> FALSE, items |-> <<>>] }
  \cup { [isArray |-> TRUE, items |-> TextsOf(n)] : n \in {0, MaxTexts} }

\* payload.texts: an array whose element is not a string
NonStringTexts == { [isArray |-> TRUE, items |-> <<NonString>>] }

\* the only asset file name the modelled loads fetch
FileKey == "model.onnx"

\* content-length of an asset response: 0 when the header is missing
ContentLengths == {0, FileBytes}

(***************************************************************************)
(* Messages posted by the worker.                                          *)
(***************************************************************************)
PercentNull == 0 - 1
Absent == 0 - 2

NoResult == [kind |-> "none", ready |-> FALSE, config |-> EmptyConfig, embeddings |-> <<>>]

NoError == [message |-> Undefined, name |-> Undefined, stack |-> Undefined]

\* postProgress(requestId, payload)
postProgress(requestId, phase, label, percent, index, total) ==
  [type |-> "progress", requestId |-> requestId, ok |-> FALSE,
   phase |-> phase, label |-> label, percent |-> percent,
   index |-> index, total |-> total,
   result |-> NoResult, error |-> NoError]

\* postResponse(requestId, ok, result, error)
postResponse(requestId, ok, result, error) ==
  [type |-> "response", requestId |-> requestId, ok |-> ok,
   phase |-> Undefined, label |-> Undefined, percent |-> Absent,
   index |-> Absent, total |-> Absent,
   result |-> result, error |-> error]

\* report({ phase: 'loading', label, percent })
LoadingProgress(requestId, label, percent) ==
  postProgress(requestId, "loading", label, percent, Absent, Absent)

\* Math.round(x / y * 100) for x >= 0, y > 0
RoundPercent(x, y) == (200 * x + y) \div (2 * y)

Min(a, b) == IF a <= b THEN a ELSE b

\* postProgress(requestId, { phase: 'running', index: i, total, percent })
RunningProgress(requestId, i, n) ==
  postProgress(requestId, "running", Undefined, RoundPercent(i + 1, n), i, n)

\* the first progress message of an init request
InitProgress(b, requestId) ==
  IF b = "xenova"
  THEN LoadingProgress(requestId, "Iniciando carga del modelo", 0)
  ELSE LoadingProgress(requestId, "Cargando modelo...", Absent)

StatusResult == [kind |-> "status", ready |-> featureExtractionPipeline # NoPipeline,
                 config |-> currentConfig, embeddings |-> <<>>]

ClearedResult == [kind |-> "cleared", ready |-> FALSE, config |-> EmptyConfig,
                  embeddings |-> <<>>]

ReadyResult(config) == [kind |-> "ready", ready |-> TRUE, config |-> config,
                        embeddings |-> <<>>]

EmbedResult(config, embeddings) ==
  [kind |-> "embeddings", ready |-> FALSE, config |-> config, embeddings |-> embeddings]

InvalidTextsError == [message |-> "texts debe ser un array no vacio",
                      name |-> Undefined, stack |-> Undefined]

\* a type the handler has no branch for
UnknownTypes == {"reset"}

\* mutant: the response does not say which type was unknown
UnknownTypeError_Generic(type) ==
  [message |-> "Tipo de mensaje desconocido", name |-> Undefined, stack |-> Undefined]

\* { message: `Tipo de mensaje desconocido: ${type}` }
UnknownTypeError(type) ==
  [message |-> "Tipo de mensaje desconocido: " \o type, name |-> Undefined,
   stack |-> Undefined]

\* mutant: the catch forwards the message alone
CaughtError_MessageOnly(err) == [message |-> err, name |-> Undefined, stack |-> Undefined]

\* { message: err?.message || String(err), name: err?.name, stack: err?.stack }
CaughtError(err) == [message |-> err, name |-> "Error", stack |-> "stack"]

(***************************************************************************)
(* Vectors.                                                                *)
(***************************************************************************)
\* the numbers the model of pipeline pipe computes for a text
Vec(pipe, text) == <<pipe.modelId, pipe.device, text>>

\* await pipe(text, { pooling: 'mean', normalize: true }): a Tensor whose
\* data is a typed array
PipeOutput(pipe, text) ==
  [isArray |-> FALSE, data |-> [kind |-> "view", elems |-> Vec(pipe, text)]]

\* Array.isArray(output) ? output : output?.data
OutputVector(output) ==
  IF output.isArray THEN [kind |-> "array", elems |-> output.data.elems] ELSE output.data

toPlainArray(vectorLike) ==
  IF vectorLike.kind = "null" THEN [kind |-> "null", elems |-> <<>>]
  ELSE IF vectorLike.kind = "array" THEN vectorLike
  ELSE IF vectorLike.kind = "view" THEN [kind |-> "array", elems |-> vectorLike.elems]
  ELSE vectorLike

(***************************************************************************)
(* Download progress accounting.                                           *)
(***************************************************************************)
RECURSIVE SumField(_, _, _)
SumField(m, keys, field) ==
  IF keys = {} THEN 0
  ELSE LET k == CHOOSE x \in keys : TRUE
       IN (IF field = "total" THEN m[k].total ELSE m[k].loaded)
          + SumField(m, keys \ {k}, field)

\* PercentNull when there is nothing to report
calculateTotalProgress(tracker) ==
  IF DOMAIN tracker = {} THEN PercentNull
  ELSE LET totalBytes == SumField(tracker, DOMAIN tracker, "total")
           loadedBytes == SumField(tracker, DOMAIN tracker, "loaded")
       IN IF totalBytes = 0 THEN PercentNull
          ELSE Min(99, RoundPercent(loadedBytes, totalBytes))

\* One read of the response body passes through the wrappers of chain, the
\* innermost (last) first; n is the number of bytes read, 0 when the reader
\* reports done.  Yields the tracker and the messages posted.
RECURSIVE XenovaRead(_, _, _, _)
XenovaRead(chain, k, n, acc) ==
  IF k = 0 THEN acc
  ELSE LET t == acc.tracker
           t2 == IF FileKey \in DOMAIN t
                 THEN [t EXCEPT ![FileKey].loaded = IF n = 0 THEN t[FileKey].total ELSE @ + n]
                 ELSE t
           pct == calculateTotalProgress(t2)
       IN XenovaRead(chain, k - 1, n,
            [tracker |-> t2,
             msgs |-> IF pct = PercentNull THEN acc.msgs
                      ELSE Append(acc.msgs, LoadingProgress(chain[k], "Descargando modelo", pct))])

RECURSIVE HfRead(_, _, _, _, _)
HfRead(chain, k, loaded, total, msgs) ==
  IF k = 0 THEN msgs
  ELSE HfRead(chain, k - 1, loaded, total,
         Append(msgs,
           IF loaded = Absent
           THEN LoadingProgress(chain[k], "Modelo descargado", 100)
           ELSE LoadingProgress(chain[k], "Descargando modelo",
                                Min(99, RoundPercent(loaded, total)))))

\* a response without content-length: every wrapper reports percent null
RECURSIVE UnknownLength(_, _, _)
UnknownLength(chain, k, msgs) ==
  IF k = 0 THEN msgs
  ELSE UnknownLength(chain, k - 1,
         Append(msgs, LoadingProgress(chain[k], "Descargando modelo", PercentNull)))

(***************************************************************************)
(* Initial state of the worker: the script has been evaluated.             *)
(***************************************************************************)
InitWorker ==
  /\ build \in Builds
  /\ featureExtractionPipeline = NoPipeline
  /\ currentConfig = EmptyConfig
  /\ downloadTracker = << >>
  /\ fetchChain = <<>>
  /\ handlers = <<>>
  /\ downloads = << >>
  /\ outbox = <<>>

\* the requestId of the n-th request: the client gives every call its own
NewRequestId == Len(handlers) + 1

Handler(type, requestId, modelId, device, texts, pc) ==
  [type |-> type, requestId |-> requestId, modelId |-> modelId, device |-> device,
   texts |-> texts, pc |-> pc, i |-> 0, embeddings |-> <<>>, pipe |-> NoPipeline,
   originalFetch |-> <<>>]

\* the handler has returned: its locals are gone
Finished(h) == Handler(Null, h.requestId, Null, Null, <<>>, "done")

(***************************************************************************)
(* The message handler: requests answered without waiting.                 *)
(***************************************************************************)
ReceiveStatus ==
  /\ Len(handlers) < MaxRequests
  /\ outbox' = <<postResponse(NewRequestId, TRUE, StatusResult, NoError)>>
  /\ handlers' = Append(handlers,
                        Finished(Handler("status", NewRequestId, Null, Null, <<>>, "start")))
  /\ UNCHANGED <<build, featureExtractionPipeline, currentConfig, downloadTracker,
                 fetchChain, downloads>>
  /\ UNCHANGED <<rpcVars, dbVars, pageVars>>

\* mutant: clearCache leaves the loaded pipeline in place
ClearedPipeline_Kept == featureExtractionPipeline

\* featureExtractionPipeline = null
ClearedPipeline == NoPipeline

ReceiveClearCache ==
  /\ Len(handlers) < MaxRequests
  /\ featureExtractionPipeline' = ClearedPipeline
  /\ currentConfig' = EmptyConfig
  /\ downloadTracker' = IF build = "xenova" THEN << >> ELSE downloadTracker
  /\ outbox' = <<postResponse(NewRequestId, TRUE, ClearedResult, NoError)>>
  /\ handlers' = Append(handlers,
                        Finished(Handler("clearCache", NewRequestId, Null, Null, <<>>, "start")))
  /\ UNCHANGED <<build, fetchChain, downloads>>
  /\ UNCHANGED <<rpcVars, dbVars, pageVars>>

ReceiveUnknown(type) ==
  /\ Len(handlers) < MaxRequests
  /\ outbox' = <<postResponse(NewRequestId, FALSE, NoResult, UnknownTypeError(type))>>
  /\ handlers' = Append(handlers,
                        Finished(Handler("unknown", NewRequestId, Null, Null, <<>>, "start")))
  /\ UNCHANGED <<build, featureExtractionPipeline, currentConfig, downloadTracker,
                 fetchChain, downloads>>
  /\ UNCHANGED <<rpcVars, dbVars, pageVars>>

(***************************************************************************)
(* ensurePipeline and the requests that call it.                           *)
(***************************************************************************)
\* the test at the head of ensurePipeline
PipelineCached(modelId, device) ==
  /\ featureExtractionPipeline # NoPipeline
  /\ currentConfig.modelId = modelId
  /\ currentConfig.device = device

\* what the handler posts once ensurePipeline has returned, config being
\* the value of currentConfig at that moment
AfterEnsureMsgs(h, config) ==
  IF h.type = "init"
  THEN <<postResponse(h.requestId, TRUE, ReadyResult(config), NoError)>>
  ELSE <<RunningProgress(h.requestId, 0, Len(h.texts))>>

\* the handler once ensurePipeline has returned pipe
AfterEnsureHandler(h, pipe) ==
  IF h.type = "init"
  THEN Finished(h)
  ELSE [h EXCEPT !.pc = "running", !.pipe = pipe, !.i = 0]

\* the head of ensurePipeline up to its await, for the new handler h whose
\* first messages are msgs
EnsureStart(h, msgs) ==
  IF PipelineCached(h.modelId, h.device)
  THEN /\ handlers' = Append(handlers, AfterEnsureHandler(h, featureExtractionPipeline))
       /\ outbox' = msgs \o AfterEnsureMsgs(h, currentConfig)
       /\ UNCHANGED <<downloadTracker, fetchChain>>
  ELSE /\ handlers' = Append(handlers,
                             [h EXCEPT !.pc = "loading", !.originalFetch = fetchChain])
       /\ downloadTracker' = IF build = "xenova" THEN << >> ELSE downloadTracker
       /\ fetchChain' = <<h.requestId>> \o fetchChain
       /\ outbox' = msgs \o
                      (IF build = "xenova"
                       THEN <<LoadingProgress(h.requestId, "Iniciando descarga", 0)>>
                       ELSE <<>>)

ReceiveInit(payload) ==
  /\ Len(handlers) < MaxRequests
  /\ LET modelId == Or(payload.modelId, DefaultModelId(build))
         device == Or(payload.device, DefaultDevice)
         h == Handler("init", NewRequestId, modelId, device, <<>>, "start")
     IN EnsureStart(h, <<InitProgress(build, NewRequestId)>>)
  /\ UNCHANGED <<build, featureExtractionPipeline, currentConfig, downloads>>
  /\ UNCHANGED <<rpcVars, dbVars, pageVars>>

ReceiveEmbed(payload, texts) ==
  /\ Len(handlers) < MaxRequests
  /\ LET modelId == Or(payload.modelId, Or(currentConfig.modelId, DefaultModelId(build)))
         device == Or(payload.device, Or(currentConfig.device, DefaultDevice))
         h == Handler("embed", NewRequestId, modelId, device, texts.items, "start")
     IN IF ~texts.isArray \/ Len(texts.items) = 0
        THEN /\ outbox' = <<postResponse(NewRequestId, FALSE, NoResult, InvalidTextsError)>>
             /\ handlers' = Append(handlers, Finished(h))
             /\ UNCHANGED <<downloadTracker, fetchChain>>
        ELSE EnsureStart(h, <<>>)
  /\ UNCHANGED <<build, featureExtractionPipeline, currentConfig, downloads>>
  /\ UNCHANGED <<rpcVars, dbVars, pageVars>>

(***************************************************************************)
(* The model load of a handler: asset fetches pass through the wrappers    *)
(* that are installed when the library calls fetch.                        *)
(***************************************************************************)
Loading(hx) == hx \in 1..Len(handlers) /\ handlers[hx].pc = "loading"

\* the library calls fetch for an asset and the response headers arrive;
\* total is the content-length (0 when unknown)
FetchStart(hx, total) ==
  /\ Loading(hx)
  /\ hx \notin DOMAIN downloads
  /\ IF fetchChain = <<>>
     THEN /\ outbox' = <<>>
          /\ UNCHANGED <<downloadTracker, downloads>>
     ELSE IF total = 0
     THEN /\ outbox' = UnknownLength(fetchChain, Len(fetchChain), <<>>)
          /\ UNCHANGED <<downloadTracker, downloads>>
     ELSE /\ downloadTracker' = IF build = "xenova"
                                THEN MapSet(downloadTracker, FileKey,
                                            [loaded |-> 0, total |-> total])
                                ELSE downloadTracker
          /\ downloads' = MapSet(downloads, hx,
                                 [chain |-> fetchChain, total |-> total, loaded |-> 0])
          /\ outbox' = <<>>
  /\ UNCHANGED <<build, featureExtractionPipeline, currentConfig, fetchChain, handlers>>
  /\ UNCHANGED <<rpcVars, dbVars, pageVars>>

\* reader.read() yields n bytes of the body
FetchChunk(hx, n) ==
  /\ hx \in DOMAIN downloads
  /\ n \in 1..(downloads[hx].total - downloads[hx].loaded)
  /\ LET d == downloads[hx]
         r == XenovaRead(d.chain, Len(d.chain), n,
                         [tracker |-> downloadTracker, msgs |-> <<>>])
     IN IF build = "xenova"
        THEN /\ downloadTracker' = r.tracker
             /\ outbox' = r.msgs
        ELSE /\ outbox' = HfRead(d.chain, Len(d.chain), d.loaded + n, d.total, <<>>)
             /\ UNCHANGED downloadTracker
  /\ downloads' = [downloads EXCEPT ![hx].loaded = @ + n]
  /\ UNCHANGED <<build, featureExtractionPipeline, currentConfig, fetchChain, handlers>>
  /\ UNCHANGED <<rpcVars, dbVars, pageVars>>

\* reader.read() yields done
FetchDone(hx) ==
  /\ hx \in DOMAIN downloads
  /\ downloads[hx].loaded = downloads[hx].total
  /\ LET d == downloads[hx]
         r == XenovaRead(d.chain, Len(d.chain), 0,
                         [tracker |-> downloadTracker, msgs |-> <<>>])
     IN IF build = "xenova"
        THEN /\ downloadTracker' = r.tracker
             /\ outbox' = r.msgs
        ELSE /\ outbox' = HfRead(d.chain, Len(d.chain), Absent, d.total, <<>>)
             /\ UNCHANGED downloadTracker
  /\ downloads' = MapDelete(downloads, hx)
  /\ UNCHANGED <<build, featureExtractionPipeline, currentConfig, fetchChain, handlers>>
  /\ UNCHANGED <<rpcVars, dbVars, pageVars>>

\* the progressInfo values the library hands to progress_callback: a file
\* is announced, its download progresses (progress is a number up to 100,
\* or missing), the file is done
NotANumber == 0 - 3

ProgressInfos ==
  { [status |-> "initiate", progress |-> NotANumber, file |-> FileKey],
    [status |-> "progress", progress |-> NotANumber, file |-> Undefined],
    [status |-> "progress", progress |-> 100, file |-> FileKey],
    [status |-> "done", progress |-> NotANumber, file |-> FileKey] }

\* what progress_callback reports for progressInfo
CallbackMsgs(requestId, info) ==
  IF info.status \in {"downloading", "progress"}
  THEN <<LoadingProgress(requestId,
                         IF info.file = Undefined THEN "Descargando modelo"
                         ELSE "Descargando " \o info.file,
                         IF info.progress = NotANumber THEN PercentNull
                         ELSE info.progress)>>
  ELSE IF info.status = "done"
  THEN <<LoadingProgress(requestId, "Modelo listo", 100)>>
  ELSE <<>>

\* the library calls the progress_callback of the load of handler hx (the
\* xenova script passes one)
ProgressCallback(hx, info) ==
  /\ Loading(hx)
  /\ build = "xenova"
  /\ outbox' = CallbackMsgs(handlers[hx].requestId, info)
  /\ UNCHANGED <<build, featureExtractionPipeline, currentConfig, downloadTracker,
                 fetchChain, handlers, downloads>>
  /\ UNCHANGED <<rpcVars, dbVars, pageVars>>

\* globalThis.fetch = originalFetch: only the xenova script restores it
RestoreFetch(h) == IF build = "xenova" THEN h.originalFetch ELSE fetchChain

\* mutant: the configuration record is not updated after a load
LoadedConfig_Stale(h) == currentConfig

\* currentConfig = { modelId, device: resolvedDevice }
LoadedConfig(h) == [modelId |-> h.modelId, device |-> Or(h.device, DefaultDevice)]

\* await pipeline(...) returns: the rest of ensurePipeline, then the handler
\* up to its next await
LoadSucceeds(hx) ==
  /\ Loading(hx)
  /\ hx \notin DOMAIN downloads
  /\ LET h == handlers[hx]
         pipe == [modelId |-> h.modelId, device |-> Or(h.device, DefaultDevice)]
     IN /\ featureExtractionPipeline' = pipe
        /\ currentConfig' = LoadedConfig(h)
        /\ fetchChain' = RestoreFetch(h)
        /\ outbox' = <<LoadingProgress(h.requestId, "Modelo listo", 100)>>
                        \o AfterEnsureMsgs(h, currentConfig')
        /\ handlers' = [handlers EXCEPT ![hx] = AfterEnsureHandler(h, pipe)]
  /\ UNCHANGED <<build, downloadTracker, downloads>>
  /\ UNCHANGED <<rpcVars, dbVars, pageVars>>

\* await pipeline(...) throws: the catch of ensurePipeline (xenova), then
\* the catch of the handler
LoadFails(hx) ==
  /\ Loading(hx)
  /\ hx \notin DOMAIN downloads
  /\ LET h == handlers[hx]
     IN /\ fetchChain' = RestoreFetch(h)
        /\ outbox' = <<postResponse(h.requestId, FALSE, NoResult,
                                     CaughtError("model load failed"))>>
        /\ handlers' = [handlers EXCEPT ![hx] = Finished(h)]
  /\ UNCHANGED <<build, featureExtractionPipeline, currentConfig, downloadTracker,
                 downloads>>
  /\ UNCHANGED <<rpcVars, dbVars, pageVars>>

(***************************************************************************)
(* The embed loop.  h.i texts have been embedded and pipe(texts[i]) is     *)
(* awaited.                                                                *)
(***************************************************************************)
Running(hx) == hx \in 1..Len(handlers) /\ handlers[hx].pc = "running"

\* mutant: the vector is put in front of the earlier ones
EmbedPush_Unshift(h) ==
  <<toPlainArray(OutputVector(PipeOutput(h.pipe, h.texts[h.i + 1])))>> \o h.embeddings

\* embeddings.push(toPlainArray(vector))
EmbedPush(h) ==
  Append(h.embeddings,
         toPlainArray(OutputVector(PipeOutput(h.pipe, h.texts[h.i + 1]))))

\* await pipe(texts[i]) returns: the rest of the iteration, then the next
\* iteration up to its await, or the response after the last one
InferenceDone(hx) ==
  /\ Running(hx)
  /\ LET h == handlers[hx]
         embeddings == EmbedPush(h)
     IN IF h.i + 1 < Len(h.texts)
        THEN /\ handlers' = [handlers EXCEPT ![hx].embeddings = embeddings,
                                              ![hx].i = h.i + 1]
             /\ outbox' = <<RunningProgress(h.requestId, h.i + 1, Len(h.texts))>>
        ELSE /\ handlers' = [handlers EXCEPT ![hx] = Finished(h)]
             /\ outbox' = <<postResponse(h.requestId, TRUE,
                                          EmbedResult([modelId |-> currentConfig.modelId,
                                                       device |-> currentConfig.device],
                                                      embeddings),
                                          NoError)>>
  /\ UNCHANGED <<build, featureExtractionPipeline, currentConfig, downloadTracker,
                 fetchChain, downloads>>
  /\ UNCHANGED <<rpcVars, dbVars, pageVars>>

\* await pipe(texts[i]) throws: the catch of the handler
InferenceFails(hx) ==
  /\ Running(hx)
  /\ outbox' = <<postResponse(handlers[hx].requestId, FALSE, NoResult,
                               CaughtError("inference failed"))>>
  /\ handlers' = [handlers EXCEPT ![hx] = Finished(handlers[hx])]
  /\ UNCHANGED <<build, featureExtractionPipeline, currentConfig, downloadTracker,
                 fetchChain, downloads>>
  /\ UNCHANGED <<rpcVars, dbVars, pageVars>>

(***************************************************************************)
(* Specification of the worker: requests arrive at any time, also while    *)
(* earlier handlers wait at an await.                                      *)
(***************************************************************************)
NextWorker ==
  \/ ReceiveStatus
  \/ ReceiveClearCache
  \/ \E type \in UnknownTypes : ReceiveUnknown(type)
  \/ \E payload \in PayloadConfigs : ReceiveInit(payload)
  \/ \E payload \in PayloadConfigs, texts \in PayloadTexts : ReceiveEmbed(payload, texts)
  \/ \E hx \in 1..MaxRequests, total \in ContentLengths : FetchStart(hx, total)
  \/ \E hx \in 1..MaxRequests, n \in 1..FileBytes : FetchChunk(hx, n)
  \/ \E hx \in 1..MaxRequests : FetchDone(hx)
  \/ \E hx \in 1..MaxRequests : LoadSucceeds(hx)
  \/ \E hx \in 1..MaxRequests : LoadFails(hx)
  \/ \E hx \in 1..MaxRequests : InferenceDone(hx)
  \/ \E hx \in 1..MaxRequests : InferenceFails(hx)

\* the promise of an invocation that has not settled
NoSearchResult == [status |-> "pending", error |-> "none", value |-> <<>>]

\* no call of upsertEmbeddings has been made
NoUpsert ==
  [outcome |-> "none", sent |-> FALSE, count |-> 0, rows |-> {}, replaced |-> {}]

\* semanticSearch has not been called, the table is empty
InitDb ==
  /\ searchPc = "idle"
  /\ searchQuery = [length |-> 0, limit |-> 0]
  /\ storeCalls = 0
  /\ searchRows = <<>>
  /\ searchResult = NoSearchResult
  /\ embeddingsTable = {}
  /\ lastUpsert = NoUpsert

\* the client has been created, the worker script evaluated, and no
\* database function called
\* no Worker
NoWorker == 0

\* results = []
NoHits == ""

\* the module is evaluated and the component is mounted with an empty query
InitPage ==
  /\ workerInstance = NoWorker
  /\ workerCount = 0
  /\ terminatedWorkers = {}
  /\ clientWorkers = {}
  /\ returned = NoWorker
  /\ query = ""
  /\ searches = <<>>
  /\ results = NoHits
  /\ searchPhase = "idle"
  /\ searchError = Null
  /\ searching = FALSE

InitBoth == InitRpc /\ InitWorker /\ InitDb /\ InitPage

\* the worker alone, with a client that makes no call

SpecWorker == InitBoth /\ [][NextWorker]_vars

\* the worker with the progress_callback calls of the library during a load
LibraryProgress ==
  \E hx \in 1..MaxRequests, info \in ProgressInfos : ProgressCallback(hx, info)

NextCallback == NextWorker \/ LibraryProgress

SpecCallback == InitBoth /\ [][NextCallback]_vars

\* the worker with callers that also send texts that are not strings
EmbedNonStrings ==
  \E payload \in PayloadConfigs, texts \in NonStringTexts : ReceiveEmbed(payload, texts)

NextUntyped == NextWorker \/ EmbedNonStrings

SpecUntyped == InitBoth /\ [][NextUntyped]_vars

(***************************************************************************)
(* Properties of the worker.                                               *)
(***************************************************************************)
\* the handler of request hx had returned before the step
WasDone(hx) == hx <= Len(handlers) /\ handlers[hx].pc = "done"

\* C9: the worker posts exactly one response per request, when its handler
\* returns, and every progress message of a request is posted before that
\* response: no step posts a message for a request that has been answered,
\* and within a step the response is the last message of its request.
C9_OneResponseAfterProgress ==
  [][/\ \A k \in 1..Len(outbox') :
          LET m == outbox'[k]
          IN /\ ~WasDone(m.requestId)
             /\ m.type = "response"
                => /\ handlers'[m.requestId].pc = "done"
                   /\ \A j \in 1..Len(outbox') :
                        (j # k /\ outbox'[j].requestId = m.requestId)
                        => (j < k /\ outbox'[j].type = "progress")
     /\ \A hx \in 1..Len(handlers') :
          (handlers'[hx].pc = "done" /\ ~WasDone(hx))
          => \E k \in 1..Len(outbox') :
               outbox'[k].type = "response" /\ outbox'[k].requestId = hx]_vars

\* C10: the success response of an embed request carries one vector per
\* text, and the i-th is the plain array of the numbers that the model of
\* the request's resolved (modelId, device) computes for texts[i].
C10_EmbedInOrder ==
  [][\A k \in 1..Len(outbox') :
       LET m == outbox'[k]
       IN (m.type = "response" /\ m.ok /\ m.result.kind = "embeddings")
          => LET h == handlers[m.requestId]
             IN /\ Len(h.texts) > 0
                /\ Len(m.result.embeddings) = Len(h.texts)
                /\ \A i \in 1..Len(h.texts) :
                     m.result.embeddings[i] =
                       [kind |-> "array",
                        elems |-> Vec([modelId |-> h.modelId, device |-> h.device],
                                      h.texts[i])]]_vars

\* C10 witness: the success response of an embed request with MaxTexts
\* texts is posted while the handler of a later request waits at an await
C10_Witness ==
  /\ Len(outbox) = 1
  /\ outbox[1].type = "response"
  /\ outbox[1].ok
  /\ outbox[1].result.kind = "embeddings"
  /\ Len(outbox[1].result.embeddings) = MaxTexts
  /\ \E hx \in 1..Len(handlers) :
       hx > outbox[1].requestId /\ handlers[hx].pc \in {"loading", "running"}


\* texts is a non-empty array of strings
ValidTexts(texts) ==
  /\ texts.isArray
  /\ Len(texts.items) > 0
  /\ \A i \in 1..Len(texts.items) : texts.items[i] # NonString

\* C11: an embed request whose texts is empty or is not an array of strings
\* is answered at once with the invalid-texts failure response: its handler
\* returns without a model load, a progress message or an inference, and the
\* pipeline and the configuration are unchanged.
C11_InvalidTextsRejected ==
  [][\A payload \in PayloadConfigs, texts \in PayloadTexts \cup NonStringTexts :
       (ReceiveEmbed(payload, texts) /\ ~ValidTexts(texts))
       => /\ outbox' = <<postResponse(NewRequestId, FALSE, NoResult, InvalidTextsError)>>
          /\ handlers'[NewRequestId].pc = "done"
          /\ UNCHANGED <<featureExtractionPipeline, currentConfig, fetchChain>>]_vars

\* the (modelId, device) an init request with this payload resolves to
InitConfig(payload) ==
  [modelId |-> Or(payload.modelId, DefaultModelId(build)),
   device |-> Or(payload.device, DefaultDevice)]

\* the (modelId, device) an embed request with this payload resolves to
EmbedConfig(payload) ==
  [modelId |-> Or(payload.modelId, Or(currentConfig.modelId, DefaultModelId(build))),
   device |-> Or(payload.device, Or(currentConfig.device, DefaultDevice))]

\* the pipeline for config is loaded
Loaded(config) ==
  featureExtractionPipeline # NoPipeline /\ currentConfig = config

\* the load of an earlier init request for config is in progress
InitLoading(config) ==
  \E hx \in 1..Len(handlers) :
    /\ handlers[hx].type = "init"
    /\ handlers[hx].pc = "loading"
    /\ handlers[hx].modelId = config.modelId
    /\ handlers[hx].device = config.device

\* the request received by this step starts no model load: its handler is
\* not left waiting for one and no fetch wrapper is installed
StartsNoLoad ==
  /\ handlers'[NewRequestId].pc # "loading"
  /\ fetchChain' = fetchChain

\* C12: an init or embed request whose resolved (modelId, device) is the
\* loaded configuration starts no model load; and an init request starts no
\* load when an earlier init request for the same (modelId, device) is
\* already loading it, so that two init requests with identical
\* (modelId, device) trigger one load.
C12_CacheHit ==
  [][/\ \A payload \in PayloadConfigs :
          (ReceiveInit(payload)
           /\ (Loaded(InitConfig(payload)) \/ InitLoading(InitConfig(payload))))
          => StartsNoLoad
     /\ \A payload \in PayloadConfigs, texts \in PayloadTexts :
          (ReceiveEmbed(payload, texts) /\ Loaded(EmbedConfig(payload)))
          => StartsNoLoad]_vars

\* the step posts the success response of init request r for config, and
\* the worker then holds the pipeline and the configuration of config
InitSucceedsWith(r, config) ==
  /\ outbox' # <<>>
  /\ outbox'[Len(outbox')] = postResponse(r, TRUE, ReadyResult(config), NoError)
  /\ featureExtractionPipeline' = config
  /\ currentConfig' = config

\* C13: when an init request succeeds, whether its model was loaded or was
\* already loaded, the worker's one pipeline and configuration are those of
\* the requested (modelId, device) with defaults resolved, whatever was
\* loaded before, and the success response carries that configuration.
C13_InitInstallsConfig ==
  [][/\ \A hx \in 1..Len(handlers) :
          (/\ handlers[hx].type = "init"
           /\ handlers[hx].pc = "loading"
           /\ handlers'[hx].pc = "done"
           /\ \E i \in 1..Len(outbox') :
                outbox'[i].type = "response" /\ outbox'[i].ok)
          => InitSucceedsWith(hx, [modelId |-> handlers[hx].modelId,
                                   device |-> handlers[hx].device])
     /\ \A payload \in PayloadConfigs :
          (ReceiveInit(payload) /\ handlers'[NewRequestId].pc = "done")
          => InitSucceedsWith(NewRequestId, InitConfig(payload))]_vars

\* C13 witness: the init request 2 for (modelB, webgpu) has just succeeded
\* while the embed request 1 still runs on the pipeline of the default
\* configuration, which was loaded before
C13_Witness ==
  /\ Len(handlers) = 2
  /\ handlers[1].pc = "running"
  /\ handlers[1].pipe = [modelId |-> DefaultModelId(build), device |-> DefaultDevice]
  /\ outbox # <<>>
  /\ outbox[Len(outbox)] =
       postResponse(2, TRUE, ReadyResult([modelId |-> "modelB", device |-> "webgpu"]),
                    NoError)
  /\ currentConfig = [modelId |-> "modelB", device |-> "webgpu"]
  /\ featureExtractionPipeline = [modelId |-> "modelB", device |-> "webgpu"]

\* C14: the modelId and device in the success response of an embed request
\* are those of the pipeline that computed its vectors, whatever requests
\* were handled while the embed was in progress.
C14_ResponseNamesModel ==
  [][\A i \in 1..Len(outbox') :
       (/\ outbox'[i].type = "response"
        /\ outbox'[i].ok
        /\ outbox'[i].result.kind = "embeddings")
       => outbox'[i].result.config = handlers[outbox'[i].requestId].pipe]_vars

\* the messages in box that answer a clearCache request
ClearedResponses(box) ==
  { i \in 1..Len(box) : box[i].type = "response" /\ box[i].result.kind = "cleared" }

\* C15: the response to a clearCache request is a success response, posted
\* by the step that receives the request, and after that step the worker has
\* no pipeline and the configuration {modelId: null, device: null}; a status
\* request handled as the very next step is answered with ready = false and
\* that configuration.
C15_ClearCache ==
  [][/\ ClearedResponses(outbox') # {}
        => /\ outbox' = <<postResponse(NewRequestId, TRUE, ClearedResult, NoError)>>
           /\ Len(handlers') = Len(handlers) + 1
           /\ handlers'[NewRequestId].pc = "done"
           /\ featureExtractionPipeline' = NoPipeline
           /\ currentConfig' = EmptyConfig
     /\ (ClearedResponses(outbox) # {} /\ ReceiveStatus)
        => /\ outbox'[1].ok
           /\ ~outbox'[1].result.ready
           /\ outbox'[1].result.config = EmptyConfig]_vars

\* C15 witness: a clearCache request was just answered while the embed
\* request 1 is running on a pipeline that was loaded before
C15_Witness ==
  /\ Len(handlers) = 2
  /\ handlers[1].pc = "running"
  /\ handlers[1].pipe # NoPipeline
  /\ outbox = <<postResponse(2, TRUE, ClearedResult, NoError)>>
  /\ featureExtractionPipeline = NoPipeline
  /\ currentConfig = EmptyConfig

\* the handler of request hx waits at an await of its body
InFlight(hx) ==
  hx \in 1..Len(handlers) /\ handlers[hx].pc \in {"loading", "running"}

\* C22: while the handler of an init or embed request waits for the model
\* load or for an inference, no handler of another request starts that reads
\* or writes the pipeline, the configuration or the fetch wrapper: the only
\* request handled meanwhile is one of unknown type, which touches none.
C22_RunToCompletion ==
  [][((\E hx \in 1..MaxRequests : InFlight(hx)) /\ Len(handlers') > Len(handlers))
     => \E type \in UnknownTypes :
          outbox' = <<postResponse(NewRequestId, FALSE, NoResult, UnknownTypeError(type))>>]_vars

\* C23: whenever no handler waits for a model load, no progress-reporting
\* wrapper is installed around the fetch of the worker.
C23_FetchRestored ==
  (\A hx \in 1..Len(handlers) : handlers[hx].pc # "loading") => fetchChain = <<>>

\* C23 read for the xenova script alone
C23_XenovaFetchRestored == build = "xenova" => C23_FetchRestored

\* the number of loading-phase messages with percent 100 among the
\* messages of box for request r
Hundreds(box, r) ==
  Cardinality({ i \in 1..Len(box) : /\ box[i].type = "progress"
                                    /\ box[i].requestId = r
                                    /\ box[i].phase = "loading"
                                    /\ box[i].percent = 100 })

\* C24: a loading-phase progress message carries percent 100 only in the
\* step that completes the load of its request, which posts exactly one;
\* every other loading-phase message has no percent, percent null, or a
\* percent of at most 99.
C24_HundredOnce ==
  [][/\ \A r \in 1..MaxRequests :
          Hundreds(outbox', r) = IF LoadSucceeds(r) THEN 1 ELSE 0
     /\ \A i \in 1..Len(outbox') :
          outbox'[i].phase = "loading"
          => outbox'[i].percent \in ({Absent, PercentNull} \cup (0..100))]_vars

\* C24 read for the huggingface script, which passes no progress_callback
C24_HuggingfaceHundredOnce ==
  [][build = "huggingface"
     => \A r \in 1..MaxRequests :
          Hundreds(outbox', r) = IF LoadSucceeds(r) THEN 1 ELSE 0]_vars

\* C25: every running-phase progress message of an embed request with n
\* texts carries the index i of a text, total n and percent
\* round(100 * (i + 1) / n), the indexes come in increasing order from 0, and
\* the message for index i is posted when the vector of texts[i] has been
\* computed.
C25_RunningProgress ==
  [][\A k \in 1..Len(outbox') :
       LET m == outbox'[k]
           h == handlers'[m.requestId]
       IN m.phase = "running"
          => /\ h.type = "embed"
             /\ m.total = Len(h.texts)
             /\ m.index = h.i
             /\ m.percent = RoundPercent(m.index + 1, m.total)
             /\ Len(h.embeddings) >= m.index + 1]_vars

\* C25 without the last conjunct: the running-phase messages are posted in
\* order, each before the inference of its text
C25_PostedBeforeInference ==
  [][\A k \in 1..Len(outbox') :
       LET m == outbox'[k]
           h == handlers'[m.requestId]
       IN m.phase = "running"
          => /\ h.type = "embed"
             /\ m.total = Len(h.texts)
             /\ m.index = h.i
             /\ m.percent = RoundPercent(m.index + 1, m.total)
             /\ Len(h.embeddings) = m.index]_vars

\* C26: a request of a type other than init, embed, status and clearCache
\* is answered at once with a failure response whose message names the type,
\* and leaves the pipeline and the configuration as they were.
C26_UnknownType ==
  [][\A type \in UnknownTypes :
       ReceiveUnknown(type)
       => /\ Len(outbox') = 1
          /\ outbox'[1].type = "response"
          /\ outbox'[1].requestId = NewRequestId
          /\ ~outbox'[1].ok
          /\ outbox'[1].error.message = "Tipo de mensaje desconocido: " \o type
          /\ featureExtractionPipeline' = featureExtractionPipeline
          /\ currentConfig' = currentConfig]_vars

\* an unknown request has been refused while a model was loaded
C26_Witness ==
  /\ featureExtractionPipeline # NoPipeline
  /\ outbox # <<>>
  /\ outbox[1].type = "response"
  /\ ~outbox[1].ok
  /\ \E type \in UnknownTypes :
       outbox[1].error.message = "Tipo de mensaje desconocido: " \o type

\* the handler of request hx is received in this step and starts a model load
StartsLoad(hx) ==
  /\ Len(handlers) = hx - 1
  /\ Len(handlers') = hx
  /\ handlers'[hx].pc = "loading"

\* C27: when the model load of an init or embed request throws, the request
\* is answered with a failure response that carries the message, the name and
\* the stack of the error, its handler ends there and never loads again, and
\* neither the start of the load nor its failure changes the loaded pipeline
\* or the configuration.
C27_LoadFailure ==
  [][\A hx \in 1..MaxRequests :
       /\ StartsLoad(hx)
          => /\ featureExtractionPipeline' = featureExtractionPipeline
             /\ currentConfig' = currentConfig
       /\ LoadFails(hx)
          => /\ Len(outbox') = 1
             /\ outbox'[1].type = "response"
             /\ outbox'[1].requestId = handlers[hx].requestId
             /\ ~outbox'[1].ok
             /\ outbox'[1].error.message = "model load failed"
             /\ outbox'[1].error.name = "Error"
             /\ outbox'[1].error.stack = "stack"
             /\ featureExtractionPipeline' = featureExtractionPipeline
             /\ currentConfig' = currentConfig
       /\ (hx \in 1..Len(handlers) /\ handlers[hx].pc = "done")
          => handlers'[hx].pc = "done"]_vars

\* a model load has failed while another model was loaded: the failure has
\* been reported and status would still report the loaded model
C27_Witness ==
  /\ featureExtractionPipeline # NoPipeline
  /\ currentConfig = featureExtractionPipeline
  /\ outbox # <<>>
  /\ outbox[1].type = "response"
  /\ ~outbox[1].ok
  /\ outbox[1].error.message = "model load failed"

(***************************************************************************)
(* Specification of the RPC client.                                        *)
(***************************************************************************)
NextRpc ==
  \/ \E type \in CallTypes, t \in CallerTimeouts, p \in BOOLEAN :
       Call(type, t, p)
  \/ \E data \in MessageData : MessageEvent(data)
  \/ \E timeoutId \in DOMAIN timers : TimerFire(timeoutId)
  \/ Dispose

\* the client alone: the worker script is loaded and receives nothing
Init == InitBoth /\ build = "xenova"

SpecRpc == Init /\ [][NextRpc]_vars

\* window timers that are set do fire
LiveRpc == SpecRpc /\ \A timeoutId \in 1..MaxCalls : WF_vars(TimerFire(timeoutId))

(***************************************************************************)
(* Properties of the RPC client.                                           *)
(***************************************************************************)
Unsettled(c) == calls[c].state = "pending"

\* data is an object with type 'response' or 'progress' and a string requestId
WellShaped(data) ==
  /\ data.tag = "object"
  /\ data.type \in {"response", "progress"}
  /\ data.ridType = "string"

\* the entry of call c in the pending Map, and the timers set for call c
EntryOf(c) == { pending[r] : r \in ({calls[c].requestId} \cap DOMAIN pending) }

TimersOf(c) == { t \in DOMAIN timers : timers[t].call = c }

\* the payloads the onProgress callback of call c was invoked with by the
\* last step, in order
InvokedFor(c) ==
  LET mine == SelectSeq(invoked, LAMBDA x : x.call = c)
  IN [i \in 1..Len(mine) |-> mine[i].payload]

\* the step handles a message event whose data is in the set S and carries
\* the requestId of call c
MessageFor(c, S) ==
  /\ lastEvent'.ev = "message"
  /\ lastEvent'.data \in S
  /\ lastEvent'.data.requestId = calls[c].requestId

\* C1: the promise of every call is settled at most once, by the first of
\* {response with its requestId, timeout, dispose}; a call is in the pending
\* Map, with its timer set, exactly while it is unsettled, and a settled
\* promise is never touched again.
C1_Inv ==
  \A c \in CallIds :
    /\ calls[c].settleCount <= 1
    /\ Unsettled(c) <=> (calls[c].settleCount = 0)
    /\ Unsettled(c) <=> (\E e \in EntryOf(c) : e.call = c)
    /\ Unsettled(c) <=> (TimersOf(c) # {})
    /\ calls[c].settledBy \in (IF Unsettled(c) THEN {"none"}
                                ELSE {"response", "timeout", "dispose"})

C1_SettledExactlyOnce ==
  /\ []C1_Inv
  /\ [][\A c \in CallIds : ~Unsettled(c) => calls'[c] = calls[c]]_vars

\* C1 witness: one call settled by a response, one by its timeout, and a
\* dispose() handled after both
C1_Witness ==
  /\ lastEvent.ev = "dispose"
  /\ \E c1, c2 \in CallIds :
       calls[c1].settledBy = "response" /\ calls[c2].settledBy = "timeout"

\* C2 (as stated): a response for a still-pending call resolves it with
\* data.result when ok is true and rejects it with data.error when ok is false.
C2_Original ==
  [][\A c \in CallIds :
       (MessageFor(c, ResponseData) /\ Unsettled(c))
       => IF lastEvent'.data.ok
          THEN /\ calls'[c].state = "resolved"
               /\ calls'[c].value = lastEvent'.data.result
          ELSE /\ calls'[c].state = "rejected"
               /\ calls'[c].value = lastEvent'.data.error]_vars

\* C2 (amended): a response for a still-pending call resolves it with
\* data.result when ok is true; when ok is false it rejects it with data.error
\* if the message carries one, and with the client's own "unknown worker
\* error" Error if data.error is absent.
C2_ResponseSettles ==
  [][\A c \in CallIds :
       (MessageFor(c, ResponseData) /\ Unsettled(c))
       => IF lastEvent'.data.ok
          THEN /\ calls'[c].state = "resolved"
               /\ calls'[c].value = lastEvent'.data.result
          ELSE /\ calls'[c].state = "rejected"
               /\ calls'[c].value = IF lastEvent'.data.error = Undefined
                                    THEN UnknownWorkerError
                                    ELSE lastEvent'.data.error]_vars

\* C2 witness: of two calls, one was resolved by an ok response and the other
\* was just rejected with the error payload of a failure response
C2_Witness ==
  /\ lastEvent.ev = "message"
  /\ lastEvent.data \in ResponseData
  /\ ~lastEvent.data.ok
  /\ \E c1, c2 \in CallIds :
       /\ calls[c1].settledBy = "response" /\ calls[c1].state = "resolved"
       /\ calls[c1].value = "resultA"
       /\ calls[c2].requestId = lastEvent.data.requestId
       /\ calls[c2].settledBy = "response" /\ calls[c2].state = "rejected"
       /\ calls[c2].value = "errorA"

\* C3: when the timer of an unsettled call fires, the call is rejected with
\* the timeout error and leaves the pending Map; a response carrying the
\* requestId of a timed-out call changes nothing and raises nothing.
C3_Timeout ==
  [][\A c \in CallIds :
       /\ (lastEvent'.ev = "timer" /\ lastEvent'.call = c /\ Unsettled(c))
          => /\ calls'[c].state = "rejected"
             /\ calls'[c].value = TimeoutError
             /\ calls[c].requestId \notin DOMAIN pending'
       /\ (MessageFor(c, ResponseData) /\ calls[c].settledBy = "timeout")
          => /\ UNCHANGED <<calls, pending, timers>>
             /\ invoked' = <<>>
             /\ ~threw']_vars

\* C3 witness: a response arrives for a call that has timed out
C3_Witness ==
  /\ lastEvent.ev = "message"
  /\ lastEvent.data \in ResponseData
  /\ \E c \in CallIds : /\ calls[c].requestId = lastEvent.data.requestId
                        /\ calls[c].settledBy = "timeout"
                        /\ calls[c].value = TimeoutError

\* C4: a step invokes the onProgress callback of a call exactly when it
\* handles a progress message carrying the call's requestId while the call
\* is unsettled and was made with a callback: then once, with the payload of that
\* message (each message is handed over in the step that handles it, hence
\* in arrival order).  No other step invokes it: in particular none once
\* the call is settled.
C4_Progress ==
  [][/\ \A c \in CallIds :
          InvokedFor(c)' =
            IF /\ MessageFor(c, ProgressData)
               /\ Unsettled(c)
               /\ calls[c].onProgress
            THEN <<lastEvent'.data.payload>>
            ELSE <<>>
     /\ \A i \in 1..Len(invoked') : invoked'[i].call \in CallIds]_vars

\* C4 witness: the callback of a pending call was just invoked with the
\* payload of a progress message, while another call with a callback is
\* settled
C4_Witness ==
  /\ lastEvent.ev = "message"
  /\ lastEvent.data \in ProgressData
  /\ \E c, d \in CallIds :
       /\ calls[c].requestId = lastEvent.data.requestId
       /\ Unsettled(c)
       /\ invoked = <<[call |-> c, payload |-> "p2"]>>
       /\ ~Unsettled(d) /\ calls[d].onProgress

\* C5: dispose() rejects every unsettled call with the disposal error,
\* leaves no timer of them set, empties the pending Map, terminates the
\* worker and raises nothing; settled calls are untouched.
C5_Dispose ==
  [][lastEvent'.ev = "dispose"
     => /\ \A c \in CallIds :
             IF Unsettled(c)
             THEN /\ calls'[c].state = "rejected"
                  /\ calls'[c].value = DisposedError
                  /\ TimersOf(c)' = {}
             ELSE calls'[c] = calls[c]
        /\ DOMAIN pending' = {}
        /\ DOMAIN timers' = {}
        /\ terminated'
        /\ ~listening'
        /\ ~threw']_vars

\* C5 witness: dispose() has just rejected two calls
C5_Witness ==
  /\ lastEvent.ev = "dispose"
  /\ \E c1, c2 \in CallIds :
       /\ c1 # c2
       /\ calls[c1].settledBy = "dispose" /\ calls[c1].value = DisposedError
       /\ calls[c2].settledBy = "dispose" /\ calls[c2].value = DisposedError

\* C6: no two calls share a requestId, and a response or progress message
\* leaves every call with another requestId as it was: its promise, its
\* pending entry, its timer, and its callback is not invoked.
C6_UniqueIds ==
  \A c1, c2 \in CallIds : calls[c1].requestId = calls[c2].requestId => c1 = c2

C6_Independent ==
  /\ []C6_UniqueIds
  /\ [][(lastEvent'.ev = "message" /\ lastEvent'.data \in ResponseData \cup ProgressData)
        => \A c \in CallIds :
             calls[c].requestId # lastEvent'.data.requestId
             => /\ calls'[c] = calls[c]
                /\ InvokedFor(c)' = <<>>
                /\ EntryOf(c)' = EntryOf(c)
                /\ TimersOf(c)' = TimersOf(c)]_vars

\* C6 witness: of two calls pending together, one was just settled by a
\* response with its requestId and the other is still pending
C6_Witness ==
  /\ lastEvent.ev = "message"
  /\ lastEvent.data \in ResponseData
  /\ \E a, b \in CallIds :
       /\ a # b
       /\ calls[a].requestId = lastEvent.data.requestId
       /\ calls[a].settledBy = "response"
       /\ Unsettled(b)
       /\ EntryOf(b) # {}

\* C7: every call that is made is eventually settled, whether or not a
\* response arrives and whether it was made before or after dispose().
C7_EventuallySettled ==
  \A c \in 1..MaxCalls :
    (Len(calls) >= c) ~> (Len(calls) >= c /\ ~Unsettled(c))

\* C7 witness: a call made after dispose() (never posted to the worker) was
\* settled by its timeout
C7_Witness ==
  /\ terminated
  /\ \E c \in CallIds :
       /\ calls[c].settledBy = "timeout"
       /\ \A i \in 1..Len(posted) : posted[i].requestId # calls[c].requestId

\* C8: a message that is not an object with type 'response' or 'progress'
\* and a string requestId, or whose requestId belongs to no unsettled call,
\* changes nothing, invokes no callback and raises nothing.
C8_Ignored ==
  [][(/\ lastEvent'.ev = "message"
      /\ \/ ~WellShaped(lastEvent'.data)
         \/ ~\E c \in CallIds : /\ calls[c].requestId = lastEvent'.data.requestId
                                /\ Unsettled(c))
     => /\ UNCHANGED <<calls, pending, timers>>
        /\ invoked' = <<>>
        /\ ~threw']_vars

\* C8 witness: a null message was dispatched while a call was pending with
\* a progress callback
C8_Witness ==
  /\ lastEvent.ev = "message"
  /\ lastEvent.data.tag = "null"
  /\ \E c \in CallIds : Unsettled(c) /\ calls[c].onProgress

(***************************************************************************)
(* semanticSearch(queryEmbedding, limit)                                   *)
(***************************************************************************)
\* number of rows the store returns to one query
MaxRows == 3

\* the dimension of the stored vectors, imported from ./schema
EMBEDDING_DIMENSIONS == 384

\* limit: number = 10
DefaultLimit == 10

\* normalizedText.slice(0, 180)
ExcerptLength == 180

\* queryEmbedding.length
QueryLengths ==
  {0, EMBEDDING_DIMENSIONS - 1, EMBEDDING_DIMENSIONS, EMBEDDING_DIMENSIONS + 1}

\* the limit argument: absent (undefined), or a number
NoLimit == 0 - 1
CallerLimits == {NoLimit, 1, 2}

DocIds == {"d1", "d2"}

\* the cosine distances (embedding <=> query) of the returned rows
Distances == {0, 1, 2}

\* a string value is written as the sequence of its runs of one character
\* (adjacent runs differ in the character, a run has at least one); null is
\* not a string
Run(ch, n) == [ch |-> ch, n |-> n]

Str(runs) == [isNull |-> FALSE, chars |-> runs]

NullStr == [isNull |-> TRUE, chars |-> <<>>]

\* a text longer than the excerpt
LongText == <<Run("a", ExcerptLength + 1)>>

\* documents.rawMarkdown: missing, empty, blank, short and long texts of
\* letters and spaces
RawMarkdowns ==
  { NullStr, Str(<<>>), Str(<<Run(" ", 1)>>),
    Str(<<Run(" ", 1), Run("a", 1), Run(" ", 2), Run("a", 1)>>), Str(LongText) }

\* a row of the join of document_embeddings with documents
Row(id, rawMarkdown, distance) ==
  [id |-> id, title |-> <<"title", id>>, slug |-> <<"slug", id>>,
   rawMarkdown |-> rawMarkdown, createdAt |-> <<"createdAt", id>>,
   similarity |-> 1 - distance]

\* .orderBy(distance): the rows come by ascending distance, that is by
\* descending similarity
OrderedByDistance(rows) ==
  \A i \in 1..(Len(rows) - 1) : rows[i].similarity >= rows[i + 1].similarity

\* the Error values
DimensionError == "Error: Dimension invalida del embedding"
StoreError == "Error: store"
NullReadError == "TypeError: Cannot read properties of null (reading 'replace')"

\* .length
RECURSIVE Length(_)
Length(s) == IF s = <<>> THEN 0 ELSE s[1].n + Length(Tail(s))

\* s + t
Concat(s, t) ==
  IF s # <<>> /\ t # <<>> /\ s[Len(s)].ch = t[1].ch
  THEN SubSeq(s, 1, Len(s) - 1) \o <<Run(t[1].ch, s[Len(s)].n + t[1].n)>> \o Tail(t)
  ELSE s \o t

\* .slice(0, end)
RECURSIVE Slice(_, _)
Slice(s, end) ==
  IF s = <<>> \/ end <= 0 THEN <<>>
  ELSE IF s[1].n >= end THEN <<Run(s[1].ch, end)>>
  ELSE <<s[1]>> \o Slice(Tail(s), end - s[1].n)

\* .replace(/\s+/g, ' '): every run of white space becomes one space
CollapseSpaces(s) ==
  [i \in 1..Len(s) |-> IF s[i].ch = " " THEN Run(" ", 1) ELSE s[i]]

\* .trim()
Trim(s) ==
  LET solid == { i \in 1..Len(s) : s[i].ch # " " }
  IN IF solid = {} THEN <<>>
     ELSE SubSeq(s, CHOOSE i \in solid : \A j \in solid : i <= j,
                    CHOOSE i \in solid : \A j \in solid : i >= j)

\* the chain of replace calls on row.rawMarkdown: on texts of letters and
\* spaces the markup patterns match nothing, the runs of white space are
\* collapsed and the ends trimmed
NormalizeText(chars) == Trim(CollapseSpaces(chars))

\* normalizedText.slice(0, 180) + (normalizedText.length > 180 ? '...' : '')
Excerpt(normalizedText) ==
  Concat(Slice(normalizedText, ExcerptLength),
         IF Length(normalizedText) > ExcerptLength THEN <<Run(".", 3)>> ELSE <<>>)

\* the value docMap.set stores for a row
ResultOf(row) ==
  [id |-> row.id, title |-> row.title, slug |-> row.slug,
   excerpt |-> Excerpt(NormalizeText(row.rawMarkdown.chars)),
   similarity |-> row.similarity, createdAt |-> row.createdAt]

\* docMap.get(id): the position of the entry of id in the Map, 0 if none
IndexOf(docMap, id) ==
  IF \E i \in 1..Len(docMap) : docMap[i].id = id
  THEN CHOOSE i \in 1..Len(docMap) : docMap[i].id = id
  ELSE 0

\* mutant: the last row of a document is kept
Better_Always(row, existing) == TRUE

\* row.similarity > existing.similarity
Better(row, existing) == row.similarity > existing.similarity

\* one pass of the loop body for row, on docMap (in insertion order) and
\* the flag that tells whether row.rawMarkdown.replace raised a TypeError
GroupRow(acc, row) ==
  LET i == IndexOf(acc.docMap, row.id)
  IN IF acc.threw THEN acc
     ELSE IF i = 0 \/ Better(row, acc.docMap[IF i = 0 THEN 1 ELSE i])
     THEN IF row.rawMarkdown.isNull
          THEN [threw |-> TRUE, docMap |-> acc.docMap]
          ELSE [threw |-> FALSE,
                docMap |-> IF i = 0 THEN Append(acc.docMap, ResultOf(row))
                           ELSE [acc.docMap EXCEPT ![i] = ResultOf(row)]]
     ELSE acc

\* for (const row of rows): docMap after the first k rows
GroupRows(rows) ==
  LET after[k \in 0..Len(rows)] ==
        IF k = 0 THEN [threw |-> FALSE, docMap |-> <<>>]
        ELSE GroupRow(after[k - 1], rows[k])
  IN after[Len(rows)]

\* mutant: the comparator orders by ascending similarity
Compare_Ascending(a, b) == a.similarity - b.similarity

\* (a, b) => b.similarity - a.similarity
Compare(a, b) == b.similarity - a.similarity

\* x put into the sorted sequence behind every element that does not have
\* to come after it
InsertSorted(sorted, x) ==
  LET after == { i \in 1..Len(sorted) : Compare(sorted[i], x) > 0 }
      pos == IF after = {} THEN Len(sorted) + 1
             ELSE CHOOSE i \in after : \A j \in after : i <= j
  IN SubSeq(sorted, 1, pos - 1) \o <<x>> \o SubSeq(sorted, pos, Len(sorted))

\* Array.prototype.sort with Compare: a stable sort
SortResults(list) ==
  LET sorted[k \in 0..Len(list)] ==
        IF k = 0 THEN <<>> ELSE InsertSorted(sorted[k - 1], list[k])
  IN sorted[Len(list)]

\* mutant: vectors shorter than the dimension pass the check
DimensionOk_AtMost(length) == length <= EMBEDDING_DIMENSIONS

\* queryEmbedding.length !== EMBEDDING_DIMENSIONS
DimensionOk(length) == length = EMBEDDING_DIMENSIONS

\* the call up to its await: the dimension check, then the query is sent
SearchCall(length, optLimit) ==
  /\ searchPc = "idle"
  /\ searchQuery' = [length |-> length,
                     limit |-> IF optLimit = NoLimit THEN DefaultLimit ELSE optLimit]
  /\ IF ~DimensionOk(length)
     THEN /\ searchPc' = "rejected"
          /\ searchResult' = [status |-> "error", error |-> DimensionError, value |-> <<>>]
          /\ UNCHANGED storeCalls
     ELSE /\ searchPc' = "querying"
          /\ storeCalls' = storeCalls + 1
          /\ UNCHANGED searchResult
  /\ UNCHANGED searchRows
  /\ UNCHANGED <<rpcVars, wVars, upsertVars, pageVars>>

\* the store answers with rows: the grouping loop and the sort
StoreReturns(rows) ==
  /\ searchPc = "querying"
  /\ Len(rows) <= searchQuery.limit
  /\ OrderedByDistance(rows)
  /\ searchRows' = rows
  /\ searchPc' = "done"
  /\ LET grouped == GroupRows(rows)
     IN searchResult' =
          IF grouped.threw
          THEN [status |-> "error", error |-> NullReadError, value |-> <<>>]
          ELSE [status |-> "ok", error |-> "none",
                value |-> SortResults(grouped.docMap)]
  /\ UNCHANGED <<searchQuery, storeCalls>>
  /\ UNCHANGED <<rpcVars, wVars, upsertVars, pageVars>>

\* the query fails: the rejection of the store passes to the caller
StoreFails ==
  /\ searchPc = "querying"
  /\ searchPc' = "failed"
  /\ searchResult' = [status |-> "error", error |-> StoreError, value |-> <<>>]
  /\ UNCHANGED <<searchQuery, storeCalls, searchRows>>
  /\ UNCHANGED <<rpcVars, wVars, upsertVars, pageVars>>

\* the rows the store returns for the picked (document, distance) pairs:
\* every row of a document carries the rawMarkdown of the document
RowsOf(pick, table) ==
  [i \in 1..Len(pick) |-> Row(pick[i][1], table[pick[i][1]], pick[i][2])]

NextSearch ==
  \/ \E length \in QueryLengths, optLimit \in CallerLimits : SearchCall(length, optLimit)
  \/ \E n \in 0..(IF searchPc = "querying" THEN Min(searchQuery.limit, MaxRows) ELSE 0) :
       \E pick \in [1..n -> DocIds \X Distances], table \in [DocIds -> RawMarkdowns] :
         StoreReturns(RowsOf(pick, table))
  \/ StoreFails

SpecSearch == Init /\ [][NextSearch]_vars

(***************************************************************************)
(* Properties of semanticSearch.                                           *)
(***************************************************************************)
Returned == searchPc = "done" /\ searchResult.status = "ok"

\* the returned rows of document id
RowsOfDoc(id) == { k \in 1..Len(searchRows) : searchRows[k].id = id }

\* C16: a call whose query vector has another length than
\* EMBEDDING_DIMENSIONS fails with the dimension error, and the invocation
\* has sent no query to the store.
C16_DimensionChecked ==
  (searchPc # "idle" /\ searchQuery.length # EMBEDDING_DIMENSIONS)
  => /\ searchPc = "rejected"
     /\ searchResult = [status |-> "error", error |-> DimensionError, value |-> <<>>]
     /\ storeCalls = 0

\* C16 witness: a call with a vector one short of the dimension was rejected
C16_Witness ==
  /\ searchPc = "rejected"
  /\ searchQuery.length = EMBEDDING_DIMENSIONS - 1
  /\ searchResult.error = DimensionError
  /\ storeCalls = 0

\* C17: the list semanticSearch returns has at most one result per document
\* id, one for every document id among the rows the store returned, and the
\* similarity of a result is the greatest similarity among the returned rows
\* of its document.
C17_OnePerDocument ==
  Returned
  => LET v == searchResult.value
     IN /\ \A i, j \in 1..Len(v) : v[i].id = v[j].id => i = j
        /\ { v[i].id : i \in 1..Len(v) } = { searchRows[k].id : k \in 1..Len(searchRows) }
        /\ \A i \in 1..Len(v) :
             /\ \E k \in RowsOfDoc(v[i].id) : searchRows[k].similarity = v[i].similarity
             /\ \A k \in RowsOfDoc(v[i].id) : searchRows[k].similarity <= v[i].similarity

\* C17 witness: the store returned two chunks of one document with different
\* similarities and a chunk of another document, and two results were returned
C17_Witness ==
  /\ Returned
  /\ Len(searchResult.value) = 2
  /\ \E k1, k2 \in 1..Len(searchRows) :
       /\ searchRows[k1].id = searchRows[k2].id
       /\ searchRows[k1].similarity # searchRows[k2].similarity

\* C18: the returned list is in non-increasing order of similarity, and
\* when the store returns no row the call returns the empty list, not an
\* error.
C18_SortedDescending ==
  /\ Returned
     => \A i \in 1..(Len(searchResult.value) - 1) :
          searchResult.value[i].similarity >= searchResult.value[i + 1].similarity
  /\ (searchPc = "done" /\ searchRows = <<>>)
     => searchResult = [status |-> "ok", error |-> "none", value |-> <<>>]

\* C18 witness: two results of different similarity were returned
C18_Witness ==
  /\ Returned
  /\ Len(searchResult.value) = 2
  /\ searchResult.value[1].similarity > searchResult.value[2].similarity

\* C19: when the store returns rows, among them rows whose rawMarkdown is
\* null or empty, the call returns, and the result of every such document
\* has the empty excerpt.
C19_EmptyExcerpt ==
  searchPc = "done"
  => /\ searchResult.status = "ok"
     /\ \A i \in 1..Len(searchResult.value) :
          \A k \in RowsOfDoc(searchResult.value[i].id) :
            (searchRows[k].rawMarkdown.isNull \/ searchRows[k].rawMarkdown.chars = <<>>)
            => searchResult.value[i].excerpt = <<>>

(***************************************************************************)
(* upsertEmbeddings(input) and deleteDocumentEmbeddings(documentId)        *)
(***************************************************************************)
\* number of items of one call
MaxItems == 2

\* chunkIndex, modelId and device of the items: a chunk, and the chunks that
\* differ from it in one of the three
ItemKeys ==
  { [chunkIndex |-> 0, modelId |-> "m1", device |-> "wasm"],
    [chunkIndex |-> 1, modelId |-> "m1", device |-> "wasm"],
    [chunkIndex |-> 0, modelId |-> "m2", device |-> "wasm"],
    [chunkIndex |-> 0, modelId |-> "m1", device |-> "webgpu"] }

\* number[] of the dimension: its length and its numbers
Vector(length, numbers) == [length |-> length, numbers |-> numbers]

\* an optional property of an item: left out, or given with a value
LeftOut == <<>>

Given(value) == <<value>>

\* option ?? default
Nullish(option, default) == IF option = LeftOut THEN default ELSE option[1]

\* chunkText, embedding, pooling and normalize of the items: the options
\* left out, and given
ItemContents ==
  { [chunkText |-> "a", embedding |-> Vector(EMBEDDING_DIMENSIONS, "v1"),
     pooling |-> LeftOut, normalize |-> LeftOut],
    [chunkText |-> "b", embedding |-> Vector(EMBEDDING_DIMENSIONS, "v2"),
     pooling |-> Given("cls"), normalize |-> Given(FALSE)] }

\* EmbeddingItem
Item(key, content) ==
  [chunkIndex |-> key.chunkIndex, chunkText |-> content.chunkText,
   embedding |-> content.embedding, modelId |-> key.modelId, device |-> key.device,
   pooling |-> content.pooling, normalize |-> content.normalize]

\* the chunk the others differ from, and the contents given without options
FirstKey == [chunkIndex |-> 0, modelId |-> "m1", device |-> "wasm"]

FirstContent == CHOOSE content \in ItemContents : content.pooling = LeftOut

\* the items the callers pass for a document: its first chunk with either
\* contents and, for the first document, the other chunks with the first
\* contents
ItemsOf(documentId) ==
  { Item(FirstKey, content) : content \in ItemContents }
  \cup { Item(key, FirstContent) :
           key \in { k \in ItemKeys : documentId = "d1" /\ k # FirstKey } }

\* fnv1a32(str): a function of the text
fnv1a32(str) == <<"fnv1a32", str>>

\* the element of values made of an item
ValueOf(documentId, it) ==
  [documentId |-> documentId,
   chunkIndex |-> it.chunkIndex,
   chunkText |-> it.chunkText,
   modelId |-> it.modelId,
   device |-> it.device,
   pooling |-> Nullish(it.pooling, "mean"),
   normalize |-> IF Nullish(it.normalize, TRUE) THEN 1 ELSE 0,
   contentHash |-> fnv1a32(it.chunkText),
   embedding |-> it.embedding]

\* mutant: the device is not part of the conflict target
ConflictTarget_NoDevice(row) == <<row.documentId, row.chunkIndex, row.modelId>>

\* target: [documentId, chunkIndex, modelId, device]
ConflictTarget(row) == <<row.documentId, row.chunkIndex, row.modelId, row.device>>

\* set: the columns an existing row takes from the excluded row
ConflictSet(row, excluded) ==
  [row EXCEPT !.chunkText = excluded.chunkText,
              !.pooling = excluded.pooling,
              !.normalize = excluded.normalize,
              !.contentHash = excluded.contentHash,
              !.embedding = excluded.embedding]

\* the rows of the table the values conflict with
Conflicting(table, values) ==
  { row \in table :
      \E i \in 1..Len(values) : ConflictTarget(values[i]) = ConflictTarget(row) }

\* INSERT ... VALUES values ON CONFLICT (target) DO UPDATE SET ...: a row in
\* conflict with a value takes the columns of set from it, a value in
\* conflict with no row is inserted
InsertOnConflictDoUpdate(table, values) ==
  { IF row \in Conflicting(table, values)
    THEN ConflictSet(row, values[CHOOSE i \in 1..Len(values) :
                                   ConflictTarget(values[i]) = ConflictTarget(row)])
    ELSE row : row \in table }
  \cup { values[i] : i \in { j \in 1..Len(values) :
                               \A row \in table :
                                 ConflictTarget(row) # ConflictTarget(values[j]) } }

\* the statement is refused: values() without a value, or two values of
\* one statement in conflict with each other (the command cannot affect a
\* row a second time)
Refused(values) ==
  \/ Len(values) = 0
  \/ \E i, j \in 1..Len(values) :
       i # j /\ ConflictTarget(values[i]) = ConflictTarget(values[j])

\* a value carries a vector of another length than the dimension
WrongDimension(values) ==
  \E i \in 1..Len(values) : values[i].embedding.length # EMBEDDING_DIMENSIONS

\* upsertEmbeddings({documentId, items}): the values are made of the items
\* and written with one statement; values.length is returned.  values()
\* without a value throws before the statement is sent; a column declared
\* with the dimension (columnTyped) makes the store refuse the statement
\* for a vector of another length
UpsertEmbeddings(documentId, items, columnTyped) ==
  LET values == [i \in 1..Len(items) |-> ValueOf(documentId, items[i])]
  IN /\ IF Refused(values) \/ (columnTyped /\ WrongDimension(values))
        THEN /\ lastUpsert' = [outcome |-> "error", sent |-> Len(values) # 0,
                               count |-> 0, rows |-> {}, replaced |-> {}]
             /\ UNCHANGED embeddingsTable
        ELSE /\ embeddingsTable' = InsertOnConflictDoUpdate(embeddingsTable, values)
             /\ lastUpsert' = [outcome |-> "ok", sent |-> TRUE, count |-> Len(values),
                               rows |-> { values[i] : i \in 1..Len(values) },
                               replaced |-> Conflicting(embeddingsTable, values)]
     /\ UNCHANGED <<rpcVars, wVars, searchVars, pageVars>>

\* deleteDocumentEmbeddings(documentId)
DeleteDocumentEmbeddings(documentId) ==
  /\ embeddingsTable' = { row \in embeddingsTable : row.documentId # documentId }
  /\ lastUpsert' = NoUpsert
  /\ UNCHANGED <<rpcVars, wVars, searchVars, pageVars>>

\* callers that pass vectors of the dimension: the declaration of the
\* column plays no part
NextUpsert ==
  \/ \E documentId \in DocIds, n \in 0..MaxItems :
       \E items \in [1..n -> ItemsOf(documentId)] :
         UpsertEmbeddings(documentId, items, TRUE)
  \/ \E documentId \in DocIds : DeleteDocumentEmbeddings(documentId)

SpecUpsert == Init /\ [][NextUpsert]_vars

\* an item whose vector is one short of the dimension
ShortItems ==
  { Item(FirstKey, [chunkText |-> "a",
                    embedding |-> Vector(EMBEDDING_DIMENSIONS - 1, "v3"),
                    pooling |-> LeftOut, normalize |-> LeftOut]) }

\* callers that pass such an item, alone or behind an item of the
\* dimension, to a store whose column is declared with or without the
\* dimension
UpsertShort ==
  \E documentId \in DocIds, n \in 0..(MaxItems - 1), columnTyped \in BOOLEAN :
    \E items \in [1..n -> ItemsOf(documentId)], short \in ShortItems :
      UpsertEmbeddings(documentId, Append(items, short), columnTyped)

NextUnvalidated == NextUpsert \/ UpsertShort

SpecUnvalidated == Init /\ [][NextUnvalidated]_vars

(***************************************************************************)
(* Properties of upsertEmbeddings.                                         *)
(***************************************************************************)
\* two rows have the same (documentId, chunkIndex, modelId, device)
SameKey(r1, r2) ==
  /\ r1.documentId = r2.documentId
  /\ r1.chunkIndex = r2.chunkIndex
  /\ r1.modelId = r2.modelId
  /\ r1.device = r2.device

\* C20: the table holds at most one row per (documentId, chunkIndex,
\* modelId, device); after a call that wrote, the table holds for every key
\* of the call exactly one row, with the chunk text, pooling, normalize
\* flag, content hash and vector of this call, whatever an earlier call
\* wrote under the key; and the call leaves the rows of all other keys as
\* they were and adds no other row.
C20_Inv ==
  /\ \A r1, r2 \in embeddingsTable : SameKey(r1, r2) => r1 = r2
  /\ lastUpsert.outcome = "ok"
     => \A v \in lastUpsert.rows : { r \in embeddingsTable : SameKey(r, v) } = {v}

C20_OneRowPerKey ==
  /\ []C20_Inv
  /\ [][lastUpsert'.outcome = "ok"
        => /\ \A r \in embeddingsTable :
                (\A v \in lastUpsert'.rows : ~SameKey(r, v)) => r \in embeddingsTable'
           /\ embeddingsTable' \subseteq embeddingsTable \cup lastUpsert'.rows]_vars

\* C20 witness: a call has just replaced the row an earlier call wrote under
\* the same key with other contents, while a row of another key stays
C20_Witness ==
  /\ lastUpsert.outcome = "ok"
  /\ \E old \in lastUpsert.replaced, v \in lastUpsert.rows :
       /\ SameKey(old, v)
       /\ old.chunkText # v.chunkText
       /\ old.embedding # v.embedding
       /\ v \in embeddingsTable
  /\ \E r \in embeddingsTable : r \notin lastUpsert.rows

\* C21: a call of upsertEmbeddings with an item whose vector has another
\* length than EMBEDDING_DIMENSIONS is rejected and sends no statement to
\* the store, and every row of the table has a vector of that length.
C21_VectorsValidated ==
  /\ [](\A row \in embeddingsTable : row.embedding.length = EMBEDDING_DIMENSIONS)
  /\ [][UpsertShort => (lastUpsert'.outcome = "error" /\ ~lastUpsert'.sent)]_vars


(***************************************************************************)
(* The worker singleton of the RPC module: getEmbeddingsWorker,            *)
(* terminateEmbeddingsWorker, and the clients that the page creates on the *)
(* Workers it obtained.  Workers are named 1, 2, ... in order of           *)
(* construction.                                                           *)
(***************************************************************************)
MaxWorkers == 4

\* if (workerInstance) return workerInstance;
\* workerInstance = new Worker(workerUrl, { type: 'module' }); return workerInstance
GetEmbeddingsWorker ==
  /\ IF workerInstance # NoWorker
     THEN /\ returned' = workerInstance
          /\ UNCHANGED <<workerInstance, workerCount>>
     ELSE /\ workerCount < MaxWorkers
          /\ workerCount' = workerCount + 1
          /\ workerInstance' = workerCount + 1
          /\ returned' = workerCount + 1
  /\ UNCHANGED <<terminatedWorkers, clientWorkers, uiVars>>
  /\ UNCHANGED <<rpcVars, wVars, dbVars>>

\* if (workerInstance) { workerInstance.terminate(); workerInstance = null; }
TerminateEmbeddingsWorker ==
  /\ IF workerInstance # NoWorker
     THEN /\ terminatedWorkers' = terminatedWorkers \cup {workerInstance}
          /\ workerInstance' = NoWorker
     ELSE UNCHANGED <<terminatedWorkers, workerInstance>>
  /\ returned' = NoWorker
  /\ UNCHANGED <<workerCount, clientWorkers, uiVars>>
  /\ UNCHANGED <<rpcVars, wVars, dbVars>>

\* createWorkerRpcClient(worker) on a Worker that getEmbeddingsWorker returned
CreateWorkerRpcClient(worker) ==
  /\ worker \in 1..workerCount
  /\ worker \notin clientWorkers
  /\ clientWorkers' = clientWorkers \cup {worker}
  /\ returned' = NoWorker
  /\ UNCHANGED <<workerInstance, workerCount, terminatedWorkers, uiVars>>
  /\ UNCHANGED <<rpcVars, wVars, dbVars>>

\* dispose() of the client created on worker: its last statement is
\* worker.terminate(); the module's workerInstance is out of its reach
DisposeClient(worker) ==
  /\ worker \in clientWorkers
  /\ terminatedWorkers' = terminatedWorkers \cup {worker}
  /\ returned' = NoWorker
  /\ UNCHANGED <<workerInstance, workerCount, clientWorkers, uiVars>>
  /\ UNCHANGED <<rpcVars, wVars, dbVars>>

NextInstance ==
  \/ GetEmbeddingsWorker
  \/ TerminateEmbeddingsWorker
  \/ \E worker \in 1..MaxWorkers : CreateWorkerRpcClient(worker)
  \/ \E worker \in 1..MaxWorkers : DisposeClient(worker)

SpecInstance == Init /\ [][NextInstance]_vars

\* C28: the Worker that getEmbeddingsWorker returns has not been terminated.
C28_ReturnedLive == returned # NoWorker => returned \notin terminatedWorkers

\* as long as no client is disposed, the Worker returned is live
C28_LiveWithoutDispose ==
  (terminatedWorkers \cap clientWorkers = {} /\ returned # NoWorker)
  => returned \notin terminatedWorkers

(***************************************************************************)
(* The SearchResults component.  Each invocation of performSearch that     *)
(* passes the blank test is a record of searches: its argument and the     *)
(* await it stands at, or how it ended.  The hits of a search are named by *)
(* the query they answer.                                                  *)
(***************************************************************************)
MaxSearches == 2

\* the values of the query prop: empty, blank, and two texts
Queries == {"", " ", "a", "b"}

\* !searchQuery.trim()
Blank(text) == text \in {"", " "}

Unfinished(s) == s \in 1..Len(searches) /\ searches[s].pc \in {"embedding", "searching"}

\* performSearch(text) up to its first await: the phase
\* 'loading-model' is overwritten by 'generating-embedding' in the same tick
PerformSearch(text) ==
  IF Blank(text)
  THEN /\ results' = NoHits
       /\ searchPhase' = "idle"
       /\ UNCHANGED <<searches, searchError, searching>>
  ELSE /\ Len(searches) < MaxSearches
       /\ searchError' = Null
       /\ searchPhase' = "generating-embedding"
       /\ searching' = TRUE
       /\ searches' = Append(searches, [query |-> text, pc |-> "embedding"])
       /\ UNCHANGED results

\* the parent renders the component with another query: the effect runs
\* performSearch(query) unless the query is empty
QueryChange(q) ==
  /\ q # query
  /\ query' = q
  /\ IF q = ""
     THEN UNCHANGED <<searches, results, searchPhase, searchError, searching>>
     ELSE PerformSearch(q)
  /\ UNCHANGED <<rpcVars, wVars, dbVars, instanceVars>>

\* the button of the error view: onClick={() => performSearch(query)}
Retry ==
  /\ searchPhase = "error"
  /\ PerformSearch(query)
  /\ UNCHANGED query
  /\ UNCHANGED <<rpcVars, wVars, dbVars, instanceVars>>

\* await embedQuery(...) returns the embedding of the query
EmbedResolves(s) ==
  /\ s \in 1..Len(searches)
  /\ searches[s].pc = "embedding"
  /\ searchPhase' = "searching"
  /\ searches' = [searches EXCEPT ![s].pc = "searching"]
  /\ UNCHANGED <<query, results, searchError, searching>>
  /\ UNCHANGED <<rpcVars, wVars, dbVars, instanceVars>>

\* catch (err) { setError(...); setPhase('error') } finally { signal false }
SearchCatch(s) ==
  /\ searchError' = "Error en la busqueda"
  /\ searchPhase' = "error"
  /\ searching' = FALSE
  /\ searches' = [searches EXCEPT ![s].pc = "error"]
  /\ UNCHANGED <<query, results>>

\* await embedQuery(...) throws
EmbedRejects(s) ==
  /\ s \in 1..Len(searches)
  /\ searches[s].pc = "embedding"
  /\ SearchCatch(s)
  /\ UNCHANGED <<rpcVars, wVars, dbVars, instanceVars>>

\* await actions.documents.semanticSearch(...) returns data:
\* setResults(...), setPhase('done'), then the finally block
SearchResolves(s) ==
  /\ s \in 1..Len(searches)
  /\ searches[s].pc = "searching"
  /\ results' = searches[s].query
  /\ searchPhase' = "done"
  /\ searching' = FALSE
  /\ searches' = [searches EXCEPT ![s].pc = "done"]
  /\ UNCHANGED <<query, searchError>>
  /\ UNCHANGED <<rpcVars, wVars, dbVars, instanceVars>>

\* the action returns result.error, or the await throws
SearchFails(s) ==
  /\ s \in 1..Len(searches)
  /\ searches[s].pc = "searching"
  /\ SearchCatch(s)
  /\ UNCHANGED <<rpcVars, wVars, dbVars, instanceVars>>

NextSearchResults ==
  \/ \E q \in Queries : QueryChange(q)
  \/ Retry
  \/ \E s \in 1..MaxSearches : EmbedResolves(s)
  \/ \E s \in 1..MaxSearches : EmbedRejects(s)
  \/ \E s \in 1..MaxSearches : SearchResolves(s)
  \/ \E s \in 1..MaxSearches : SearchFails(s)

SpecSearchResults == Init /\ [][NextSearchResults]_vars

\* the searching signal is true while a search is in progress
C29_SignalHeld == (\E s \in 1..MaxSearches : Unfinished(s)) => searching

\* once every search has ended, what is shown is the outcome of the last
\* search, the one for the current query
C29_LatestShown ==
  (/\ searches # <<>>
   /\ \A s \in 1..MaxSearches : ~Unfinished(s)
   /\ searches[Len(searches)].query = query)
  => /\ searchPhase = searches[Len(searches)].pc
     /\ searchPhase = "done" => results = query

\* C29: overlapping runs of performSearch leave no stale output: once all
\* searches have ended the results and the phase shown are those of the
\* search for the most recent query, and the searching signal is never false
\* while a search is in progress.
C29_NoStaleOutput == C29_SignalHeld /\ C29_LatestShown
====
